---- MODULE Spec2Model ----
(***************************************************************************)
(* PDF chat backend: the session layer (pdf_chat_session.py), the prompt   *)
(* builder and conversation client (llm_client.py), the text extractor     *)
(* (pdf_processor.py) and the HTTP handlers that drive them (main.py).     *)
(*                                                                         *)
(* Texts are sequences of atoms (strings).  The atom "DOCUMENTO #" is the  *)
(* marker get_system_prompt counts; every other piece of a template is an  *)
(* atom of its own, and CharLen gives the number of characters the Python  *)
(* text has.  An optional value (Optional[...] / None) is a sequence of    *)
(* length 0 (None) or 1 (the value).                                       *)
(***************************************************************************)
EXTENDS Integers, Sequences, FiniteSets, TLC

VARIABLES
    now,              \* the wall clock read by datetime.now(), in ticks
    sessions,         \* the PDFChatSession objects ever constructed (the heap)
    active_sessions,  \* pdf_chat_session.active_sessions: session id -> object
    sessions_created, \* main.app_state["sessions_created"]
    uploads,          \* upload requests suspended at `await file.read()`
    chats,            \* chat calls suspended at `await self.llm_client.chat(...)`
    last              \* the operation that ran last and what its caller got back

vars == <<now, sessions, active_sessions, sessions_created, uploads, chats, last>>

----------------------------------------------------------------------------
(* Bounds of the model *)

MaxSessions == 2      \* session objects constructed in a run
MaxTurns == 3         \* turns of history from which no further chat is started
MaxUploads == 1       \* upload requests in flight at once
TicksPerSecond == 2   \* clock resolution: ticks in one second
MaxLogTurns == 22     \* history length up to which a long conversation is followed
MaxTextAtoms == 3     \* pieces a text handed to the estimator is made of
MaxFlights == 2       \* chat calls suspended at their remote call at once

(* Program constants *)

DefaultTimeoutMinutes == 30   \* is_session_expired(timeout_minutes=30)
MAX_PDF_SIZE_MB == 10         \* config.MAX_PDF_SIZE_MB
MinTextLength == 50           \* extract_text: threshold for meaningful text
ScannedThreshold == 100       \* get_pdf_info: has_text threshold
BasePromptLen == 724          \* len(base_prompt) in get_system_prompt
GeminiLimit == 1000000        \* gemini_limit in get_token_usage_info
SummaryLogLen == 10           \* token_usage_history[-10:] in get_session_summary

----------------------------------------------------------------------------
(* Optional values *)

None == <<>>
Some(x) == <<x>>
IsNone(o) == o = <<>>
Value(o) == o[1]

(* Time *)

Seconds(n) == n * TicksPerSecond
Minutes(n) == Seconds(n * 60)

\* The instants at which the clock is sampled: construction, a moment later in
\* the same second, twenty minutes on, and just past the default timeout.
Instants ==
    { 0, 1, Minutes(DefaultTimeoutMinutes - 10), Minutes(DefaultTimeoutMinutes + 1) }

(* Number formatting *)

Digit == <<"0", "1", "2", "3", "4", "5", "6", "7", "8", "9">>

RECURSIVE IntStr(_)
IntStr(n) == IF n < 10 THEN Digit[n + 1] ELSE IntStr(n \div 10) \o Digit[(n % 10) + 1]

Pad2(n) == Digit[(n \div 10) + 1] \o Digit[(n % 10) + 1]
Pad3(n) == Digit[(n \div 100) + 1] \o Pad2(n % 100)

\* f"{n:,}"
RECURSIVE Commas(_)
Commas(n) == IF n < 1000 THEN IntStr(n) ELSE Commas(n \div 1000) \o "," \o Pad3(n % 1000)

HMS(t, sep) ==
    LET s == t \div TicksPerSecond
    IN Pad2((s \div 3600) % 24) \o sep \o Pad2((s \div 60) % 60) \o sep \o Pad2(s % 60)

\* strftime('%Y-%m-%d %H:%M:%S'), the clock starting at midnight of day one
Strftime(t) == "2025-01-01 " \o HMS(t, ":")

\* strftime("%Y%m%d_%H%M%S")
StrftimeId(t) == "20250101_" \o HMS(t, "")

\* len(datetime.isoformat()): the microseconds are left out when they are zero
IsoLen(t) == IF t % TicksPerSecond = 0 THEN 19 ELSE 26

----------------------------------------------------------------------------
(* Texts *)

MARK == "DOCUMENTO #"

\* Extracted words stand for runs of text of the given number of characters.
WordLen == [w \in {"alpha", "beta", "gamma", "tiny", "omega"} |->
              CASE w = "alpha" -> 60 [] w = "beta" -> 120 [] w = "gamma" -> 80 [] w = "tiny" -> 10
                [] w = "omega" -> 4 * GeminiLimit + 4000]

\* Characters of the template pieces, counted on the Python literals.
TemplateLen == [a \in {"<info>", "<metodo>", "<fecha>", "<tamano>", "<contenido>", "FIN DEL ",
                       "<cierre>", "DOCUMENTOS PDF CARGADOS:", "INSTRUCCIONES ESPECIALES: MULTIPLES",
                       "DOCUMENTO PDF CARGADO:", "<este documento>", "<Usuario>", "<base_prompt>"} |->
              CASE a = "<info>" -> 92 [] a = "<metodo>" -> 28 [] a = "<fecha>" -> 22
                [] a = "<tamano>" -> 14 [] a = "<contenido>" -> 78 [] a = "FIN DEL " -> 57
                [] a = "<cierre>" -> 49 [] a = "DOCUMENTOS PDF CARGADOS:" -> 52
                [] a = "INSTRUCCIONES ESPECIALES: MULTIPLES" -> 587
                [] a = "DOCUMENTO PDF CARGADO:" -> 47 [] a = "<este documento>" -> 123
                [] a = "<Usuario>" -> 11 [] a = "<base_prompt>" -> BasePromptLen]

CharLen(a) ==
    IF a \in DOMAIN WordLen THEN WordLen[a]
    ELSE IF a \in DOMAIN TemplateLen THEN TemplateLen[a]
    ELSE Len(a)

RECURSIVE TextLen(_)
TextLen(t) == IF t = <<>> THEN 0 ELSE CharLen(Head(t)) + TextLen(Tail(t))

\* str.count(atom)
Count(t, a) == Cardinality({i \in DOMAIN t : t[i] = a})

\* sep.join(parts)
RECURSIVE Join(_, _)
Join(parts, sep) ==
    IF parts = <<>> THEN <<>>
    ELSE IF Len(parts) = 1 THEN parts[1]
    ELSE parts[1] \o sep \o Join(Tail(parts), sep)

\* bool(text) for an Optional[str]
Truthy(o) == ~IsNone(o) /\ Value(o) # <<>>

----------------------------------------------------------------------------
(* Files and extraction (pdf_processor.py) *)

\* What is in a file: its size, its pages, what pdfplumber/PyPDF2 extract from
\* it and what the OCR service reads in it.
Bodies ==
    { [id |-> "plain", size |-> 2048, pages |-> 1, std |-> <<"alpha">>, ocr |-> <<>>],
      [id |-> "report", size |-> 1234567, pages |-> 3, std |-> <<"beta">>, ocr |-> <<>>],
      [id |-> "scan", size |-> 8192, pages |-> 2, std |-> <<"tiny">>, ocr |-> <<"gamma">>],
      [id |-> "blank", size |-> 512, pages |-> 1, std |-> <<>>, ocr |-> <<>>],
      [id |-> "tome", size |-> 9000000, pages |-> 900, std |-> <<"omega">>, ocr |-> <<>>] }

Body(id) == CHOOSE b \in Bodies : b.id = id

ocr_available == TRUE

extract_text(body) ==
    IF body.std # <<>> /\ TextLen(body.std) > MinTextLength
    THEN [text |-> body.std, method |-> "text"]
    ELSE IF ocr_available /\ body.ocr # <<>>
    THEN [text |-> body.ocr, method |-> "ocr"]
    ELSE [text |-> <<>>, method |-> "failed"]

get_pdf_info(body) ==
    LET has_text == TextLen(body.std) > ScannedThreshold
    IN [file_size |-> body.size, num_pages |-> body.pages,
        is_scanned |-> ~has_text, has_text |-> has_text]

----------------------------------------------------------------------------
(* Token estimator and prompt builder (llm_client.py) *)

\* An estimate that rounds up
estimate_tokensCeil(text) == (TextLen(text) + 3) \div 4

estimate_tokens(text) == TextLen(text) \div 4

base_prompt == <<"<base_prompt>">>

get_system_prompt(pdf_content) ==
    IF Truthy(pdf_content)
    THEN LET is_multiple_pdfs == Count(Value(pdf_content), MARK) > 1
         IN IF is_multiple_pdfs
            THEN base_prompt \o <<"DOCUMENTOS PDF CARGADOS:">> \o Value(pdf_content)
                     \o <<"INSTRUCCIONES ESPECIALES: MULTIPLES">>
            ELSE base_prompt \o <<"DOCUMENTO PDF CARGADO:">> \o Value(pdf_content)
                     \o <<"<este documento>">>
    ELSE base_prompt

----------------------------------------------------------------------------
(* The session object (pdf_chat_session.py) *)

NewSession(id, t) ==
    [session_id |-> id,
     pdfs |-> <<>>,
     combined_pdf_content |-> None,
     conversation_history |-> <<>>,
     created_at |-> t,
     last_activity |-> t,
     pdf_content |-> None,
     pdf_filename |-> None,
     pdf_info |-> None,
     total_tokens_used |-> 0,
     token_usage_history |-> <<>>]

_generate_session_id(t) == "pdf_chat_" \o StrftimeId(t)

\* The dict self.pdfs as the sequence of its items, in insertion order.
HasKey(pdfs, name) == \E i \in DOMAIN pdfs : pdfs[i].name = name
KeyIndex(pdfs, name) == CHOOSE i \in DOMAIN pdfs : pdfs[i].name = name

\* An assignment that moves an existing key to the end
DictPutMoveToEnd(pdfs, name, rec) ==
    Append(SelectSeq(pdfs, LAMBDA d : d.name # name), rec)

\* pdfs[name] = rec: a new key goes last, an existing key keeps its place
DictPut(pdfs, name, rec) ==
    IF HasKey(pdfs, name)
    THEN [pdfs EXCEPT ![KeyIndex(pdfs, name)] = rec]
    ELSE Append(pdfs, rec)

\* del pdfs[name]
DictDel(pdfs, name) ==
    LET k == KeyIndex(pdfs, name)
    IN [i \in 1..(Len(pdfs) - 1) |-> IF i < k THEN pdfs[i] ELSE pdfs[i + 1]]

DocBlock(i, d) ==
    <<"\n", MARK, IntStr(i), ": ", d.name,
      "<info>", IntStr(d.info.num_pages),
      "<metodo>", d.method,
      "<fecha>", Strftime(d.uploaded_at),
      "<tamano>", Commas(d.info.file_size),
      "<contenido>">>
    \o d.content
    \o <<"FIN DEL ", MARK, IntStr(i), ": ", d.name, "<cierre>">>

\* A rebuild that leaves the legacy field as it finds it
_rebuild_combined_contentLegacyStale(s) ==
    IF s.pdfs = <<>>
    THEN [s EXCEPT !.combined_pdf_content = None]
    ELSE [s EXCEPT !.combined_pdf_content =
              Some(Join([i \in DOMAIN s.pdfs |-> DocBlock(i, s.pdfs[i])], <<"\n">>))]

_rebuild_combined_contentSkipped(s) == s

_rebuild_combined_content(s) ==
    IF s.pdfs = <<>>
    THEN [s EXCEPT !.combined_pdf_content = None, !.pdf_content = None]
    ELSE LET combined_parts == [i \in DOMAIN s.pdfs |-> DocBlock(i, s.pdfs[i])]
             combined == Join(combined_parts, <<"\n">>)
         IN [s EXCEPT !.combined_pdf_content = Some(combined), !.pdf_content = Some(combined)]

\* load_pdf filing a record before it has looked at the file
load_pdfStoresFirst(s, path, file, pdf_name, t) ==
    LET rec == [name |-> path.base, content |-> <<>>, info |-> get_pdf_info(Body("blank")),
                method |-> "failed", uploaded_at |-> t, path |-> path]
    IN [s |-> [s EXCEPT !.pdfs = DictPut(s.pdfs, path.base, rec)], ret |-> FALSE]

\* load_pdf(pdf_path, pdf_name) at time t; file is None when nothing is at pdf_path
load_pdf(s, path, file, pdf_name, t) ==
    IF IsNone(file)
    THEN [s |-> s, ret |-> FALSE]
    ELSE LET filename == IF ~IsNone(pdf_name) /\ Value(pdf_name) # "" THEN Value(pdf_name) ELSE path.base
             pdf_info == get_pdf_info(Value(file))
             ex == extract_text(Value(file))
         IN IF ex.text = <<>>
            THEN [s |-> s, ret |-> FALSE]
            ELSE LET rec == [name |-> filename, content |-> ex.text, info |-> pdf_info,
                             method |-> ex.method, uploaded_at |-> t, path |-> path]
                     s1 == [s EXCEPT !.pdfs = DictPut(s.pdfs, filename, rec)]
                     s2 == IF Len(s1.pdfs) = 1
                           THEN [s1 EXCEPT !.pdf_content = Some(ex.text),
                                           !.pdf_filename = Some(filename),
                                           !.pdf_info = Some(pdf_info)]
                           ELSE s1
                 IN [s |-> _rebuild_combined_content(s2), ret |-> TRUE]

remove_pdf(s, filename) ==
    IF ~HasKey(s.pdfs, filename)
    THEN [s |-> s, ret |-> FALSE]
    ELSE LET s1 == _rebuild_combined_content([s EXCEPT !.pdfs = DictDel(s.pdfs, filename)])
             s2 == IF s1.pdfs # <<>>
                   THEN [s1 EXCEPT !.pdf_filename = Some(s1.pdfs[1].name),
                                   !.pdf_info = Some(s1.pdfs[1].info)]
                   ELSE [s1 EXCEPT !.pdf_filename = None, !.pdf_info = None]
         IN [s |-> s2, ret |-> TRUE]

has_pdfsAlways(s) == TRUE

has_pdfs(s) == Len(s.pdfs) > 0

is_session_expiredInclusive(s, timeout_minutes, t) ==
    t - s.last_activity >= Minutes(timeout_minutes)

is_session_expired(s, timeout_minutes, t) == t - s.last_activity > Minutes(timeout_minutes)

\* A clear that leaves the usage log in place
clear_conversationKeepsLog(s) ==
    [s EXCEPT !.conversation_history = <<>>, !.total_tokens_used = 0]

\* A clear that also puts last_activity back to the time of construction
clear_conversationRewinds(s) ==
    [s EXCEPT !.conversation_history = <<>>, !.token_usage_history = <<>>,
              !.total_tokens_used = 0, !.last_activity = s.created_at]

clear_conversationKeepsCounter(s) ==
    [s EXCEPT !.conversation_history = <<>>, !.token_usage_history = <<>>]

clear_conversation(s) ==
    [s EXCEPT !.conversation_history = <<>>, !.token_usage_history = <<>>, !.total_tokens_used = 0]

unload_pdf(s) ==
    clear_conversation([s EXCEPT !.pdfs = <<>>, !.combined_pdf_content = None,
                                 !.pdf_content = None, !.pdf_filename = None, !.pdf_info = None])

\* seq[-n:]
LastN(seq, n) == IF Len(seq) <= n THEN seq ELSE SubSeq(seq, Len(seq) - n + 1, Len(seq))

get_pdf_list(s) ==
    [i \in DOMAIN s.pdfs |->
        [filename |-> s.pdfs[i].name, pages |-> s.pdfs[i].info.num_pages,
         size |-> s.pdfs[i].info.file_size, method |-> s.pdfs[i].method,
         uploaded_at |-> s.pdfs[i].uploaded_at,
         tokens |-> estimate_tokens(s.pdfs[i].content)]]

\* get_session_summary() at time t; the average is left as the fraction num/den
get_session_summary(s, t) ==
    LET combined == s.combined_pdf_content
        listed == [pdfs_loaded |-> Len(s.pdfs),
                   pdf_list |-> get_pdf_list(s),
                   total_content_length |-> IF Truthy(combined) THEN TextLen(Value(combined)) ELSE 0,
                   total_estimated_tokens |->
                       IF Truthy(combined) THEN estimate_tokens(Value(combined)) ELSE 0,
                   filename |-> s.pdf_filename,
                   loaded |-> Truthy(s.pdf_content),
                   content_length |-> IF Truthy(s.pdf_content) THEN TextLen(Value(s.pdf_content)) ELSE 0,
                   estimated_tokens |->
                       IF Truthy(s.pdf_content) THEN estimate_tokens(Value(s.pdf_content)) ELSE 0]
        exchanges == Len(s.conversation_history) \div 2
    IN [session_id |-> s.session_id,
        created_at |-> s.created_at,
        last_activity |-> s.last_activity,
        duration |-> t - s.created_at,
        pdf_info |-> IF IsNone(s.pdf_info) THEN listed ELSE Value(s.pdf_info) @@ listed,
        conversation_info |->
            [message_count |-> Len(s.conversation_history),
             total_tokens_used |-> s.total_tokens_used,
             average_tokens_per_exchange |->
                 [num |-> s.total_tokens_used, den |-> IF exchanges > 1 THEN exchanges ELSE 1]],
        token_usage_history |-> LastN(s.token_usage_history, SummaryLogLen)]

----------------------------------------------------------------------------
(* The conversation client (llm_client.py) *)

APOLOGY == "Lo siento, hubo un error al procesar tu mensaje: "

\* str(e) of the TypeError len(None) raises
TypeErrorText == <<"object of type 'NoneType' has no len()">>

\* len(str(conversation_history)): the repr of a list of dicts with the keys
\* role, content and timestamp
ReprLen(history) ==
    LET DictLen(m) == 50 + Len(m.role) + TextLen(m.content) + IsoLen(m.timestamp)
        RECURSIVE Sum(_)
        Sum(h) == IF h = <<>> THEN 0 ELSE DictLen(Head(h)) + Sum(Tail(h))
    IN 2 + Sum(history) + 2 * (Len(history) - 1)

\* exc is the message of the exception raised, None when the call returns val
get_token_usage_info(message, pdf_content, conversation_history) ==
    IF IsNone(message)
    THEN [exc |-> Some(TypeErrorText), val |-> None]
    ELSE LET message_tokens == estimate_tokens(Value(message))
             pdf_tokens == IF Truthy(pdf_content) THEN estimate_tokens(Value(pdf_content)) ELSE 0
             base_prompt_tokens == estimate_tokens(get_system_prompt(None))
             history_tokens == IF conversation_history # <<>>
                               THEN ReprLen(conversation_history) \div 4 ELSE 0
             total_tokens == message_tokens + pdf_tokens + base_prompt_tokens + history_tokens
         IN [exc |-> None,
             val |-> Some([message_tokens |-> message_tokens, pdf_tokens |-> pdf_tokens,
                           base_prompt_tokens |-> base_prompt_tokens,
                           history_tokens |-> history_tokens, total_tokens |-> total_tokens,
                           gemini_limit |-> GeminiLimit])]

\* What the provider does with a message it is sent.
Providers ==
    { [kind |-> "reply", text |-> <<"respuesta">>],
      [kind |-> "error", text |-> <<"503 Service Unavailable">>] }

\* The except clause of GeminiClient.chat
ClientExceptRaises(e) == [raised |-> TRUE, text |-> e]

ClientExcept(e) == [raised |-> FALSE, text |-> <<APOLOGY>> \o e]

\* GeminiClient.chat sending the bare message, without documents and history
ClientChatBareMessage(message, pdf_content, conversation_history, provider) ==
    [raised |-> FALSE, text |-> provider.text, failed |-> FALSE,
     sent |-> Some([history |-> <<>>, message |-> Value(message)])]

\* GeminiClient.chat: text is what the caller gets back (or, were raised TRUE, the
\* message of the exception it gets); sent is the message handed to the provider.
ClientChat(message, pdf_content, conversation_history, provider) ==
    LET token_info == get_token_usage_info(message, pdf_content, conversation_history)
    IN IF ~IsNone(token_info.exc)
       THEN ClientExcept(Value(token_info.exc)) @@ [sent |-> None, failed |-> FALSE]
       ELSE LET chat_history == [i \in DOMAIN conversation_history |->
                                   [role |-> conversation_history[i].role,
                                    parts |-> conversation_history[i].content]]
                full_message == IF Truthy(pdf_content)
                                THEN get_system_prompt(pdf_content) \o <<"<Usuario>">> \o Value(message)
                                ELSE Value(message)
                sent == Some([history |-> chat_history, message |-> full_message])
            IN IF provider.kind = "error"
               THEN ClientExcept(provider.text) @@ [sent |-> sent, failed |-> TRUE]
               ELSE [raised |-> FALSE, text |-> provider.text, sent |-> sent, failed |-> FALSE]

----------------------------------------------------------------------------
(* PDFChatSession.chat *)

NoResult ==
    [raised |-> FALSE, success |-> FALSE, error |-> None, response |-> None,
     token_info |-> None, client |-> "not_called", sent |-> None]

\* The except clause of PDFChatSession.chat
ChatExceptNoResponse(e) ==
    [NoResult EXCEPT !.error = Some(e)]

ChatExcept(e) ==
    [NoResult EXCEPT !.error = Some(e), !.response = Some(<<APOLOGY>> \o e)]

\* The two appends to conversation_history
AppendTurnsUserOnly(history, message, response, t1, t2) ==
    Append(history, [role |-> "user", content |-> message, timestamp |-> t1])

AppendTurnsKeepLast(history, message, response, t1, t2) ==
    << [role |-> "user", content |-> message, timestamp |-> t1],
       [role |-> "assistant", content |-> response, timestamp |-> t2] >>

AppendTurns(history, message, response, t1, t2) ==
    history \o << [role |-> "user", content |-> message, timestamp |-> t1],
                  [role |-> "assistant", content |-> response, timestamp |-> t2] >>

\* A chat that files the user turn before it calls the client, and fails there
chatFilesTurnFirst(s, message, provider, t1, t2) ==
    [s |-> [s EXCEPT !.last_activity = t1,
                     !.conversation_history =
                         Append(@, [role |-> "user", content |-> message, timestamp |-> t1])],
     res |-> ChatExcept(TypeErrorText)]

\* chat(message) entered at time t1, the reply stamped at time t2
chat(s, message, provider, t1, t2) ==
    IF ~has_pdfs(s)
    THEN [s |-> s,
          res |-> [NoResult EXCEPT !.error = Some(<<"No PDFs loaded in this session">>)]]
    ELSE LET s1 == [s EXCEPT !.last_activity = t1]
             token_info == get_token_usage_info(message, s1.pdf_content, s1.conversation_history)
         IN IF ~IsNone(token_info.exc)
            THEN [s |-> s1, res |-> ChatExcept(Value(token_info.exc))]
            ELSE LET r == ClientChat(message, s1.combined_pdf_content,
                                     s1.conversation_history, provider)
                     called == IF r.failed THEN "error" ELSE "reply"
                 IN IF r.raised
                    THEN [s |-> s1,
                          res |-> [ChatExcept(r.text) EXCEPT !.client = called, !.sent = r.sent]]
                    ELSE LET response == r.text
                             ti == Value(token_info.val)
                             history == AppendTurns(s1.conversation_history, Value(message),
                                                    response, t1, t2)
                             response_tokens == estimate_tokens(response)
                             total_message_tokens == ti.total_tokens + response_tokens
                             total == s1.total_tokens_used + total_message_tokens
                             token_usage_record ==
                                 [timestamp |-> t1, message_tokens |-> ti.message_tokens,
                                  response_tokens |-> response_tokens,
                                  total_exchange_tokens |-> total_message_tokens,
                                  cumulative_tokens |-> total]
                             s2 == [s1 EXCEPT !.conversation_history = history,
                                              !.total_tokens_used = total,
                                              !.token_usage_history = Append(@, token_usage_record)]
                         IN [s |-> s2,
                             res |-> [raised |-> FALSE, success |-> TRUE, error |-> None,
                                      response |-> Some(response),
                                      token_info |-> Some(ti @@
                                          [response_tokens |-> response_tokens,
                                           total_exchange_tokens |-> total_message_tokens,
                                           session_total_tokens |-> total]),
                                      client |-> called, sent |-> r.sent]]

\* chat(message) in the two runs the event loop gives it.  chat_begin is the
\* run from the entry at time t1 to `await self.llm_client.chat(...)`, taken
\* when the session has documents and the usage breakdown does not raise; call
\* is what the client was handed and has read by the time it waits for the
\* provider.
chat_begin(s, message, t1) ==
    LET s1 == [s EXCEPT !.last_activity = t1]
        token_info == get_token_usage_info(Some(message), s1.pdf_content, s1.conversation_history)
    IN [s |-> s1,
        call |-> [message |-> message, token_info |-> Value(token_info.val),
                  pdf_content |-> s1.combined_pdf_content,
                  history |-> s1.conversation_history]]

\* A resumption that goes on from the history the call was entered with
chat_finishFromSnapshot(s, c, provider, t2) ==
    chat([s EXCEPT !.conversation_history = c.history], Some(c.message), provider,
         s.last_activity, t2)

\* chat_finish is the run from the resumption, at time t2, to the return: it
\* reads the session as it is by then.
chat_finish(s, c, provider, t2) ==
    LET r == ClientChat(Some(c.message), c.pdf_content, c.history, provider)
        called == IF r.failed THEN "error" ELSE "reply"
    IN IF r.raised
       THEN [s |-> s, res |-> [ChatExcept(r.text) EXCEPT !.client = called, !.sent = r.sent]]
       ELSE LET response == r.text
                ti == c.token_info
                history == AppendTurns(s.conversation_history, c.message, response,
                                       s.last_activity, t2)
                response_tokens == estimate_tokens(response)
                total_message_tokens == ti.total_tokens + response_tokens
                total == s.total_tokens_used + total_message_tokens
                token_usage_record ==
                    [timestamp |-> s.last_activity, message_tokens |-> ti.message_tokens,
                     response_tokens |-> response_tokens,
                     total_exchange_tokens |-> total_message_tokens,
                     cumulative_tokens |-> total]
                s2 == [s EXCEPT !.conversation_history = history,
                                !.total_tokens_used = total,
                                !.token_usage_history = Append(@, token_usage_record)]
            IN [s |-> s2,
                res |-> [raised |-> FALSE, success |-> TRUE, error |-> None,
                         response |-> Some(response),
                         token_info |-> Some(ti @@
                             [response_tokens |-> response_tokens,
                              total_exchange_tokens |-> total_message_tokens,
                              session_total_tokens |-> total]),
                         client |-> called, sent |-> r.sent]]

----------------------------------------------------------------------------
(* The registry (pdf_chat_session.py) *)

get_session(session_id) ==
    IF session_id \in DOMAIN active_sessions THEN Some(active_sessions[session_id]) ELSE None

\* A sweep that collects every registered id
ExpiredIdsAll(timeout_minutes, t) == DOMAIN active_sessions

\* The session ids cleanup_expired_sessions collects at time t
ExpiredIds(timeout_minutes, t) ==
    {id \in DOMAIN active_sessions :
        is_session_expired(sessions[active_sessions[id]], timeout_minutes, t)}

Without(f, ids) == [id \in (DOMAIN f) \ ids |-> f[id]]

----------------------------------------------------------------------------
(* What the caller of the last operation observed *)

\* arg is the argument of the call: the message of a chat, the timeout of an
\* expiry test or of a sweep
Obs(op, obj, res) == [op |-> op, obj |-> obj, http |-> 0, info |-> None, arg |-> None] @@ res

Returned(value) == [NoResult EXCEPT !.success = value]

----------------------------------------------------------------------------
(* Inputs *)

\* Files a caller of the library can name: three that exist and one that does not.
DiskPaths ==
    { [dir |-> "docs", base |-> "a.pdf"], [dir |-> "docs", base |-> "b.pdf"],
      [dir |-> "docs", base |-> "blank.pdf"], [dir |-> ".", base |-> "non_existent_file.pdf"] }

OnDisk(path) ==
    CASE path.base = "a.pdf" -> Some(Body("plain"))
      [] path.base = "b.pdf" -> Some(Body("scan"))
      [] path.base = "blank.pdf" -> Some(Body("blank"))
      [] path.base = "big.pdf" -> Some(Body("tome"))
      [] OTHER -> None

\* pdf_name: left out, or the name another file already goes by
PdfNames == {None, Some("a.pdf")}

DocNames == {"a.pdf", "b.pdf", "blank.pdf"}

Messages == {Some(<<"hola">>), None}

----------------------------------------------------------------------------
(* Library calls: what the callers that hold a session object do *)

\* One session, just constructed by create_session("test_session_1").
Init ==
    /\ now = 0
    /\ sessions = <<NewSession("test_session_1", 0)>>
    /\ active_sessions = ("test_session_1" :> 1)
    /\ sessions_created = 0
    /\ uploads = {}
    /\ chats = {}
    /\ last = Obs("init", 0, NoResult)

\* Time passes.
Advance(t) ==
    /\ t > now
    /\ now' = t
    /\ last' = Obs("advance", 0, NoResult)
    /\ UNCHANGED <<sessions, active_sessions, sessions_created, uploads, chats>>

\* PDFChatSession.__init__ and create_session
NewId(session_id, t) ==
    IF ~IsNone(session_id) /\ Value(session_id) # "" THEN Value(session_id)
    ELSE _generate_session_id(t)

Register(reg, id, obj) == (id :> obj) @@ reg

create_session(session_id) ==
    /\ Len(sessions) < MaxSessions
    /\ LET id == NewId(session_id, now)
       IN /\ sessions' = Append(sessions, NewSession(id, now))
          /\ active_sessions' = Register(active_sessions, id, Len(sessions) + 1)
    /\ last' = Obs("create_session", Len(sessions) + 1, Returned(TRUE))
    /\ UNCHANGED <<now, sessions_created, uploads, chats>>

LoadPdf(o, path, pdf_name) ==
    LET r == load_pdf(sessions[o], path, OnDisk(path), pdf_name, now)
    IN /\ sessions' = [sessions EXCEPT ![o] = r.s]
       /\ last' = Obs("load_pdf", o, Returned(r.ret))
       /\ UNCHANGED <<now, active_sessions, sessions_created, uploads, chats>>

RemovePdf(o, filename) ==
    LET r == remove_pdf(sessions[o], filename)
    IN /\ sessions' = [sessions EXCEPT ![o] = r.s]
       /\ last' = Obs("remove_pdf", o, Returned(r.ret))
       /\ UNCHANGED <<now, active_sessions, sessions_created, uploads, chats>>

UnloadPdf(o) ==
    /\ sessions' = [sessions EXCEPT ![o] = unload_pdf(sessions[o])]
    /\ last' = Obs("unload_pdf", o, Returned(TRUE))
    /\ UNCHANGED <<now, active_sessions, sessions_created, uploads, chats>>

\* session.is_session_expired(timeout_minutes)
IsSessionExpired(o, timeout_minutes) ==
    /\ last' = [Obs("is_session_expired", o,
                    Returned(is_session_expired(sessions[o], timeout_minutes, now)))
                   EXCEPT !.arg = Some(timeout_minutes)]
    /\ UNCHANGED <<now, sessions, active_sessions, sessions_created, uploads, chats>>

ClearConversation(o) ==
    /\ sessions' = [sessions EXCEPT ![o] = clear_conversation(sessions[o])]
    /\ last' = Obs("clear_conversation", o, Returned(TRUE))
    /\ UNCHANGED <<now, active_sessions, sessions_created, uploads, chats>>

\* await session.chat(message): the provider answers at time t2
ChatStep(o, message, provider, t2) ==
    /\ t2 >= now
    /\ LET r == chat(sessions[o], message, provider, now, t2)
       IN /\ sessions' = [sessions EXCEPT ![o] = r.s]
          /\ last' = [Obs("chat", o, r.res) EXCEPT !.arg = message]
          /\ now' = IF r.res.client = "not_called" THEN now ELSE t2
    /\ UNCHANGED <<active_sessions, sessions_created, uploads, chats>>

\* ... on a session whose history has not reached the length explored
Chat(o, message, provider, t2) ==
    /\ Len(sessions[o].conversation_history) < MaxTurns
    /\ ChatStep(o, message, provider, t2)

\* await session.chat(message), up to the point where it waits for the provider
ChatBegin(o, message) ==
    LET b == chat_begin(sessions[o], message, now)
        c == [obj |-> o] @@ b.call
    IN /\ has_pdfs(sessions[o])
       /\ c \notin chats
       /\ sessions' = [sessions EXCEPT ![o] = b.s]
       /\ chats' = chats \cup {c}
       /\ last' = Obs("await llm_client.chat()", o, NoResult)
       /\ UNCHANGED <<now, active_sessions, sessions_created, uploads>>

\* ... and from the provider's answer to the return
ChatFinish(c, provider) ==
    LET r == chat_finish(sessions[c.obj], c, provider, now)
    IN /\ c \in chats
       /\ chats' = chats \ {c}
       /\ sessions' = [sessions EXCEPT ![c.obj] = r.s]
       /\ last' = [Obs("chat", c.obj, r.res) EXCEPT !.arg = Some(c.message)]
       /\ UNCHANGED <<now, active_sessions, sessions_created, uploads>>

----------------------------------------------------------------------------
(* The HTTP handlers (main.py) *)

\* An uploaded file: its name as stem and extension, and what is in it.
FileName(file) == file.stem \o file.ext

Lower(ext) == IF ext = ".PDF" THEN ".pdf" ELSE ext

\* An object no reference is left to: Python frees it.
Collected == NewSession("", 0)

Collect(heap, reg, ups) ==
    [o \in DOMAIN heap |->
        IF \/ \E id \in DOMAIN reg : reg[id] = o
           \/ \E u \in ups : u.obj = o
           \/ \E c \in chats : c.obj = o
        THEN heap[o] ELSE Collected]

Http(op, obj, code) == [Obs(op, obj, Returned(code < 400)) EXCEPT !.http = code]

\* The dependency letting every registered session through
get_valid_sessionNoExpiry(session_id, t) ==
    IF session_id \in DOMAIN active_sessions
    THEN [code |-> 200, obj |-> active_sessions[session_id]]
    ELSE [code |-> 404, obj |-> 0]

\* The dependency every session endpoint runs first: the status it answers
\* with (200 when it hands the session on) and the session object.
get_valid_session(session_id, t) ==
    LET session == get_session(session_id)
    IN IF IsNone(session) THEN [code |-> 404, obj |-> 0]
       ELSE IF is_session_expired(sessions[Value(session)], DefaultTimeoutMinutes, t)
       THEN [code |-> 410, obj |-> Value(session)]
       ELSE [code |-> 200, obj |-> Value(session)]

\* POST /api/v1/sessions
create_new_session ==
    /\ Len(sessions) < MaxSessions
    /\ LET id == NewId(None, now)
           reg == Register(active_sessions, id, Len(sessions) + 1)
       IN /\ active_sessions' = reg
          /\ sessions' = Collect(Append(sessions, NewSession(id, now)), reg, uploads)
    /\ sessions_created' = sessions_created + 1
    /\ last' = Http("create_new_session", Len(sessions) + 1, 201)
    /\ UNCHANGED <<now, uploads, chats>>

\* DELETE /api/v1/sessions/{session_id}
delete_session(session_id) ==
    /\ IF IsNone(get_session(session_id))
       THEN /\ last' = Http("delete_session", 0, 404)
            /\ UNCHANGED <<sessions, active_sessions>>
       ELSE LET reg == Without(active_sessions, {session_id})
            IN /\ active_sessions' = reg
               /\ sessions' = Collect(sessions, reg, uploads)
               /\ last' = Http("delete_session", active_sessions[session_id], 200)
    /\ UNCHANGED <<now, sessions_created, uploads, chats>>

\* cleanup_expired_sessions(timeout_minutes), as GET /api/v1/sessions runs it
\* with the default timeout
cleanup_expired_sessions(timeout_minutes) ==
    /\ LET expired_sessions == ExpiredIds(timeout_minutes, now)
           reg == Without(active_sessions, expired_sessions)
       IN /\ active_sessions' = reg
          /\ sessions' = Collect(sessions, reg, uploads)
          /\ last' = [Http("cleanup_expired_sessions", 0, 200) EXCEPT
                         !.info = Some(Cardinality(expired_sessions)),
                         !.arg = Some(timeout_minutes)]
    /\ UNCHANGED <<now, sessions_created, uploads, chats>>

\* POST .../pdf (ep = "pdf") and POST .../pdfs/add (ep = "add"), up to
\* `content = await file.read()`
UploadBegin(ep, session_id, file, pdf_name) ==
    LET v == get_valid_session(session_id, now)
    IN /\ IF v.code # 200
          THEN /\ last' = Http(ep, v.obj, v.code)
               /\ UNCHANGED uploads
          ELSE IF Lower(file.ext) # ".pdf"
          THEN /\ last' = Http(ep, v.obj, 400)
               /\ UNCHANGED uploads
          ELSE /\ Cardinality(uploads) < MaxUploads
               /\ uploads' = uploads \cup {[ep |-> ep, obj |-> v.obj, file |-> file,
                                            pdf_name |-> IF ep = "add" THEN pdf_name ELSE None]}
               /\ last' = Obs("await file.read()", v.obj, NoResult)
       /\ UNCHANGED <<now, sessions, active_sessions, sessions_created, chats>>

\* The PDFInfo of the upload response
UploadInfo(num_pages, content_length, estimated_tokens, extraction_method) ==
    [num_pages |-> num_pages, content_length |-> content_length,
     estimated_tokens |-> estimated_tokens, extraction_method |-> extraction_method]

\* The duplicate-name check of add_pdf_to_session
NameExists(ep, s, display_name) == ep = "add" /\ HasKey(s.pdfs, display_name)

\* display_name = pdf_name or file.filename
DisplayName(u) ==
    IF ~IsNone(u.pdf_name) /\ Value(u.pdf_name) # "" THEN Value(u.pdf_name) ELSE FileName(u.file)

\* temp_path = f"/tmp/{session.session_id}_{...}"
TempPath(u, s) ==
    [dir |-> "/tmp",
     base |-> s.session_id \o "_" \o (IF u.ep = "add" THEN DisplayName(u) ELSE FileName(u.file))]

\* ... and from there to the response
UploadFinish(u) ==
    LET s == sessions[u.obj]
        display_name == DisplayName(u)
        temp_path == TempPath(u, s)
        r == load_pdf(s, temp_path, Some(u.file.body),
                      IF u.ep = "add" THEN Some(display_name) ELSE None, now)
        ups == uploads \ {u}
    IN /\ u \in uploads
       /\ uploads' = ups
       /\ IF u.file.body.size > MAX_PDF_SIZE_MB * 1024 * 1024
          THEN /\ last' = Http(u.ep, u.obj, 413)
               /\ sessions' = Collect(sessions, active_sessions, ups)
          ELSE IF NameExists(u.ep, s, display_name)
          THEN /\ last' = Http(u.ep, u.obj, 409)
               /\ sessions' = Collect(sessions, active_sessions, ups)
          ELSE IF ~r.ret
          THEN /\ last' = Http(u.ep, u.obj, 422)
               /\ sessions' = Collect(sessions, active_sessions, ups)
          ELSE /\ sessions' = Collect([sessions EXCEPT ![u.obj] = r.s], active_sessions, ups)
               /\ last' = [Http(u.ep, u.obj, 200) EXCEPT !.info =
                    IF u.ep = "add"
                    THEN LET pdf_data == r.s.pdfs[KeyIndex(r.s.pdfs, display_name)]
                         IN Some(UploadInfo(pdf_data.info.num_pages, TextLen(pdf_data.content),
                                            estimate_tokens(pdf_data.content), pdf_data.method))
                    ELSE LET legacy == Value(r.s.pdf_info)
                             content == Value(r.s.pdf_content)
                         IN Some(UploadInfo(legacy.num_pages, TextLen(content),
                                            estimate_tokens(content),
                                            IF legacy.is_scanned THEN "ocr" ELSE "text"))]
       /\ UNCHANGED <<now, active_sessions, sessions_created, chats>>

\* DELETE .../pdfs/{pdf_name}
remove_specific_pdf(session_id, pdf_name) ==
    LET v == get_valid_session(session_id, now)
    IN /\ IF v.code # 200
          THEN /\ last' = Http("remove_specific_pdf", v.obj, v.code)
               /\ UNCHANGED sessions
          ELSE LET r == remove_pdf(sessions[v.obj], pdf_name)
               IN /\ sessions' = [sessions EXCEPT ![v.obj] = r.s]
                  /\ last' = Http("remove_specific_pdf", v.obj, IF r.ret THEN 200 ELSE 404)
       /\ UNCHANGED <<now, active_sessions, sessions_created, uploads, chats>>

\* DELETE .../pdf
api_remove_pdf(session_id) ==
    LET v == get_valid_session(session_id, now)
    IN /\ IF v.code # 200
          THEN /\ last' = Http("api_remove_pdf", v.obj, v.code)
               /\ UNCHANGED sessions
          ELSE IF ~Truthy(sessions[v.obj].pdf_content)
          THEN /\ last' = Http("api_remove_pdf", v.obj, 404)
               /\ UNCHANGED sessions
          ELSE /\ sessions' = [sessions EXCEPT ![v.obj] = unload_pdf(sessions[v.obj])]
               /\ last' = Http("api_remove_pdf", v.obj, 200)
       /\ UNCHANGED <<now, active_sessions, sessions_created, uploads, chats>>

\* POST .../chat
send_message(session_id, message, provider, t2) ==
    LET v == get_valid_session(session_id, now)
    IN /\ t2 >= now
       /\ IF v.code # 200
          THEN /\ last' = Http("send_message", v.obj, v.code)
               /\ UNCHANGED <<sessions, now>>
          ELSE IF ~Truthy(sessions[v.obj].pdf_content)
          THEN /\ last' = Http("send_message", v.obj, 400)
               /\ UNCHANGED <<sessions, now>>
          ELSE /\ Len(sessions[v.obj].conversation_history) < MaxTurns
               /\ LET r == chat(sessions[v.obj], message, provider, now, t2)
                  IN /\ sessions' = [sessions EXCEPT ![v.obj] = r.s]
                     /\ last' = [Obs("send_message", v.obj, r.res) EXCEPT
                                    !.http = IF r.res.success THEN 200 ELSE 500,
                                    !.arg = message]
                     /\ now' = t2
       /\ UNCHANGED <<active_sessions, sessions_created, uploads, chats>>

\* SessionInfo as the handlers build it from the summary
SessionInfoOf(s, summary) ==
    [session_id |-> s.session_id, created_at |-> s.created_at,
     last_activity |-> s.last_activity, duration_minutes |-> summary.duration,
     has_pdf |-> summary.pdf_info.loaded,
     message_count |-> summary.conversation_info.message_count,
     total_tokens_used |-> summary.conversation_info.total_tokens_used]

\* PDFInfo as get_pdf_info and get_session_stats build it from the summary
LegacyPdfInfo(summary) ==
    UploadInfo(summary.pdf_info.num_pages, summary.pdf_info.content_length,
               summary.pdf_info.estimated_tokens,
               IF summary.pdf_info.is_scanned THEN "ocr" ELSE "text")

\* GET /api/v1/sessions/{session_id}
get_session_info(session_id) ==
    LET v == get_valid_session(session_id, now)
    IN /\ IF v.code # 200
          THEN last' = Http("get_session_info", v.obj, v.code)
          ELSE last' = [Http("get_session_info", v.obj, 200) EXCEPT !.info =
                           Some(SessionInfoOf(sessions[v.obj],
                                              get_session_summary(sessions[v.obj], now)))]
       /\ UNCHANGED <<now, sessions, active_sessions, sessions_created, uploads, chats>>

\* GET .../pdf
api_get_pdf_info(session_id) ==
    LET v == get_valid_session(session_id, now)
    IN /\ IF v.code # 200
          THEN last' = Http("api_get_pdf_info", v.obj, v.code)
          ELSE IF ~Truthy(sessions[v.obj].pdf_content)
          THEN last' = Http("api_get_pdf_info", v.obj, 404)
          ELSE IF IsNone(sessions[v.obj].pdf_info)
          THEN last' = Http("api_get_pdf_info", v.obj, 500)
          ELSE last' = [Http("api_get_pdf_info", v.obj, 200) EXCEPT !.info =
                           Some(LegacyPdfInfo(get_session_summary(sessions[v.obj], now)))]
       /\ UNCHANGED <<now, sessions, active_sessions, sessions_created, uploads, chats>>

\* GET .../pdfs
list_pdfs(session_id) ==
    LET v == get_valid_session(session_id, now)
    IN /\ IF v.code # 200
          THEN last' = Http("list_pdfs", v.obj, v.code)
          ELSE LET pdf_list == get_pdf_list(sessions[v.obj])
                   RECURSIVE Sum(_)
                   Sum(l) == IF l = <<>> THEN 0 ELSE Head(l).tokens + Sum(Tail(l))
               IN last' = [Http("list_pdfs", v.obj, 200) EXCEPT !.info =
                              Some([pdfs |-> pdf_list, total_pdfs |-> Len(pdf_list),
                                    total_tokens |-> Sum(pdf_list)])]
       /\ UNCHANGED <<now, sessions, active_sessions, sessions_created, uploads, chats>>

\* GET .../history
get_chat_history(session_id) ==
    LET v == get_valid_session(session_id, now)
    IN /\ IF v.code # 200
          THEN last' = Http("get_chat_history", v.obj, v.code)
          ELSE LET s == sessions[v.obj]
                   messages == [i \in DOMAIN s.conversation_history |->
                                   [role |-> s.conversation_history[i].role,
                                    content |-> s.conversation_history[i].content,
                                    timestamp |-> s.conversation_history[i].timestamp,
                                    token_count |->
                                        estimate_tokens(s.conversation_history[i].content)]]
               IN last' = [Http("get_chat_history", v.obj, 200) EXCEPT !.info =
                              Some([messages |-> messages, total_messages |-> Len(messages),
                                    session_info |->
                                        SessionInfoOf(s, get_session_summary(s, now))])]
       /\ UNCHANGED <<now, sessions, active_sessions, sessions_created, uploads, chats>>

\* GET .../stats
get_session_stats(session_id) ==
    LET v == get_valid_session(session_id, now)
    IN /\ IF v.code # 200
          THEN last' = Http("get_session_stats", v.obj, v.code)
          ELSE LET s == sessions[v.obj]
                   summary == get_session_summary(s, now)
               IN IF Truthy(s.pdf_content) /\ IsNone(s.pdf_info)
                  THEN last' = Http("get_session_stats", v.obj, 500)
                  ELSE last' = [Http("get_session_stats", v.obj, 200) EXCEPT !.info =
                          Some([session_info |-> SessionInfoOf(s, summary),
                                pdf_info |-> IF Truthy(s.pdf_content)
                                             THEN Some(LegacyPdfInfo(summary)) ELSE None,
                                token_usage |-> summary.conversation_info,
                                recent_activity |-> summary.token_usage_history])]
       /\ UNCHANGED <<now, sessions, active_sessions, sessions_created, uploads, chats>>

\* DELETE .../history
clear_chat_history(session_id) ==
    LET v == get_valid_session(session_id, now)
    IN /\ IF v.code # 200
          THEN /\ last' = Http("clear_chat_history", v.obj, v.code)
               /\ UNCHANGED sessions
          ELSE /\ sessions' = [sessions EXCEPT ![v.obj] = clear_conversation(sessions[v.obj])]
               /\ last' = Http("clear_chat_history", v.obj, 200)
       /\ UNCHANGED <<now, active_sessions, sessions_created, uploads, chats>>

----------------------------------------------------------------------------
(* Specifications *)

Next ==
    \/ \E t \in Instants : Advance(t)
    \/ \E o \in DOMAIN sessions, path \in DiskPaths, n \in PdfNames : LoadPdf(o, path, n)
    \/ \E o \in DOMAIN sessions, n \in DocNames : RemovePdf(o, n)
    \/ \E o \in DOMAIN sessions : UnloadPdf(o)
    \/ \E o \in DOMAIN sessions : ClearConversation(o)
    \/ \E o \in DOMAIN sessions : Chat(o, Some(<<"hola">>), [kind |-> "reply", text |-> <<"respuesta">>], now)

Spec == Init /\ [][Next]_vars

NextChat ==
    \/ \E t \in Instants : Advance(t)
    \/ \E o \in DOMAIN sessions, b \in {"a.pdf", "b.pdf"} :
           LoadPdf(o, [dir |-> "docs", base |-> b], None)
    \/ \E o \in DOMAIN sessions : RemovePdf(o, "a.pdf")
    \/ \E o \in DOMAIN sessions : UnloadPdf(o)
    \/ \E o \in DOMAIN sessions : ClearConversation(o)
    \/ \E o \in DOMAIN sessions, m \in Messages, p \in Providers, t2 \in Instants :
           Chat(o, m, p, t2)

SpecChat == Init /\ [][NextChat]_vars

\* The ids a client may send: those registered and one that never was.
ClientIds == DOMAIN active_sessions \cup {"pdf_chat_19990101_000000"}

PlainPdf == [stem |-> "a", ext |-> ".pdf", body |-> Body("plain")]

ClientFiles ==
    { PlainPdf,
      [stem |-> "a", ext |-> ".pdf", body |-> Body("scan")],
      [stem |-> "notes", ext |-> ".txt", body |-> Body("blank")] }

\* The instants the service's clock is sampled at: start, a moment later in the
\* same second, and just past the default timeout.
ApiInstants == { 0, 1, Minutes(DefaultTimeoutMinutes + 1) }

\* The service with one session, created by POST /api/v1/sessions at start:
\* the session's documents as the upload and removal endpoints change them.
InitUpload ==
    /\ now = 0
    /\ sessions = <<NewSession(NewId(None, 0), 0)>>
    /\ active_sessions = (NewId(None, 0) :> 1)
    /\ sessions_created = 1
    /\ uploads = {}
    /\ chats = {}
    /\ last = Obs("init", 0, NoResult)

NextUpload ==
    \/ \E t \in ApiInstants : Advance(t)
    \/ \E ep \in {"pdf", "add"}, id \in ClientIds, f \in ClientFiles, n \in PdfNames :
           UploadBegin(ep, id, f, n)
    \/ \E u \in uploads : UploadFinish(u)
    \/ \E id \in ClientIds : remove_specific_pdf(id, "a.pdf")
    \/ \E id \in ClientIds : api_remove_pdf(id)

SpecUpload == InitUpload /\ [][NextUpload]_vars

\* The service from its start: the registry as sessions are created, used,
\* deleted and swept.
InitApi ==
    /\ now = 0
    /\ sessions = <<>>
    /\ active_sessions = [id \in {} |-> 0]
    /\ sessions_created = 0
    /\ uploads = {}
    /\ chats = {}
    /\ last = Obs("init", 0, NoResult)

NextApi ==
    \/ \E t \in ApiInstants : Advance(t)
    \/ create_new_session
    \/ \E id \in ClientIds : delete_session(id)
    \/ cleanup_expired_sessions(DefaultTimeoutMinutes)
    \/ \E id \in ClientIds : UploadBegin("add", id, PlainPdf, None)
    \/ \E u \in uploads : UploadFinish(u)
    \/ \E id \in ClientIds :
           send_message(id, Some(<<"hola">>), [kind |-> "reply", text |-> <<"respuesta">>], now)

SpecApi == InitApi /\ [][NextApi]_vars

\* The timeouts callers pass: 0 (the sweep at shutdown) and the default.
Timeouts == {0, DefaultTimeoutMinutes}

\* The start, a moment later, and a timeout and a minute after the start.
ExpiryInstants == {0, 1} \cup {Minutes(tm + 1) : tm \in Timeouts}

\* The registry used through the library, as the session-isolation test uses
\* it: a second session is created, the first is given a document and chats,
\* and sessions are tested for expiry and swept.
NextRegistry ==
    \/ \E t \in ExpiryInstants : Advance(t)
    \/ create_session(Some("test_session_2"))
    \/ \E id \in DOMAIN active_sessions :
           id = "test_session_1" /\ LoadPdf(active_sessions[id], [dir |-> "docs", base |-> "a.pdf"], None)
    \/ \E id \in DOMAIN active_sessions :
           /\ id = "test_session_1"
           /\ Chat(active_sessions[id], Some(<<"hola">>), [kind |-> "reply", text |-> <<"respuesta">>], now)
    \/ \E id \in DOMAIN active_sessions, tm \in Timeouts :
           IsSessionExpired(active_sessions[id], tm)
    \/ \E tm \in Timeouts : cleanup_expired_sessions(tm)

SpecRegistry == Init /\ [][NextRegistry]_vars

\* A session given a small document and one whose text alone is past the
\* provider's token ceiling, and chatting about them.
NextTokens ==
    \/ \E t \in ApiInstants : Advance(t)
    \/ \E o \in DOMAIN sessions, b \in {"a.pdf", "big.pdf"} :
           LoadPdf(o, [dir |-> "docs", base |-> b], None)
    \/ \E o \in DOMAIN sessions : RemovePdf(o, "a.pdf")
    \/ \E o \in DOMAIN sessions : ClearConversation(o)
    \/ \E o \in DOMAIN sessions, p \in Providers : Chat(o, Some(<<"hola">>), p, now)

SpecTokens == Init /\ [][NextTokens]_vars

\* The ids of the requests at the guarded endpoints: the id of the session
\* created at start, still registered or since deleted, and one that never was.
GuardIds == {NewId(None, 0), "pdf_chat_19990101_000000"}

\* The start, when the session is live, and an instant past its timeout.
GuardInstants == {0, Minutes(DefaultTimeoutMinutes + 1)}

HOLA == Some(<<"hola">>)

REPLY == [kind |-> "reply", text |-> <<"respuesta">>]

\* A request at one of the endpoints that take their session from
\* get_valid_session, carrying session id `id`
GuardedRequest(id) ==
    \/ \E ep \in {"pdf", "add"} : UploadBegin(ep, id, PlainPdf, None)
    \/ remove_specific_pdf(id, "a.pdf")
    \/ api_remove_pdf(id)
    \/ send_message(id, HOLA, REPLY, now)
    \/ clear_chat_history(id)
    \/ get_session_info(id)
    \/ api_get_pdf_info(id)
    \/ list_pdfs(id)
    \/ get_chat_history(id)
    \/ get_session_stats(id)

\* The service with one session: requests at every session endpoint, for a
\* live, an expired, a deleted and an unknown session.
NextGuard ==
    \/ \E t \in GuardInstants : Advance(t)
    \/ \E id \in GuardIds : delete_session(id)
    \/ \E u \in uploads : UploadFinish(u)
    \/ \E id \in GuardIds : GuardedRequest(id)

SpecGuard == InitUpload /\ [][NextGuard]_vars

\* One long conversation about one document.
NextLog ==
    \/ \E t \in GuardInstants : Advance(t)
    \/ \E o \in DOMAIN sessions : LoadPdf(o, [dir |-> "docs", base |-> "a.pdf"], None)
    \/ \E o \in DOMAIN sessions : ClearConversation(o)
    \/ \E o \in DOMAIN sessions :
           /\ Len(sessions[o].conversation_history) < MaxLogTurns
           /\ ChatStep(o, HOLA, REPLY, now)

SpecLog == Init /\ [][NextLog]_vars

\* What two callers of the same session ask
FlightMessages == {<<"hola">>, <<"resumen">>}

\* One session with a document and chat calls that overlap: a call is entered
\* while another waits for the provider, and they are answered in any order.
NextFlights ==
    \/ \E t \in GuardInstants : Advance(t)
    \/ \E o \in DOMAIN sessions : LoadPdf(o, [dir |-> "docs", base |-> "a.pdf"], None)
    \/ \E o \in DOMAIN sessions, m \in FlightMessages :
           /\ Cardinality(chats) < MaxFlights
           /\ Len(sessions[o].conversation_history) + 2 * Cardinality(chats) < MaxTurns
           /\ ChatBegin(o, m)
    \/ \E c \in chats, p \in Providers : ChatFinish(c, p)

SpecFlights == Init /\ [][NextFlights]_vars

\* The estimator on its own, handed texts of every length from the empty
\* string up: texts of up to MaxTextAtoms pieces of 0, 1, 2, 3, 4 and 10
\* characters.
TextAtoms == {"", "a", "ab", "abc", "hola", "tiny"}

Texts == UNION {[1..n -> TextAtoms] : n \in 0..MaxTextAtoms}

\* client.estimate_tokens(text)
EstimateTokens(text) ==
    /\ last' = [Obs("estimate_tokens", 0, NoResult) EXCEPT
                   !.arg = Some(text), !.info = Some(estimate_tokens(text))]
    /\ UNCHANGED <<now, sessions, active_sessions, sessions_created, uploads, chats>>

NextEstimate == \E text \in Texts : EstimateTokens(text)

SpecEstimate == Init /\ [][NextEstimate]_vars

----------------------------------------------------------------------------
(* Reading a combined text back into its blocks *)

IsWord(a) == a \in DOMAIN WordLen

\* Where a block's opening line starts: a marker that no "FIN DEL " precedes
Heads(t) == {p \in DOMAIN t : t[p] = MARK /\ (p = 1 \/ t[p - 1] # "FIN DEL ")}

First(t, from, a) == CHOOSE q \in from..Len(t) : t[q] = a /\ \A r \in from..(q - 1) : t[r] # a

BlockAt(t, p) ==
    LET c == First(t, p, "<contenido>")
        f == First(t, c, "FIN DEL ")
    IN [number |-> t[p + 1], name |-> t[p + 3], content |-> SubSeq(t, c + 1, f - 1),
        closing_number |-> t[f + 2], closing_name |-> t[f + 4]]

WellFormed(t) ==
    \A p \in Heads(t) :
        /\ \E q \in p..Len(t) : t[q] = "<contenido>"
        /\ \E q \in p..Len(t) : t[q] = "FIN DEL "
        /\ p + 3 <= Len(t)

----------------------------------------------------------------------------
(* C1 *)

\* C1: in every state, a session's combined text is None exactly when it holds
\* no document; otherwise it reads back as one block per document of the map,
\* the k-th block numbered k and carrying the k-th document's name and current
\* content, and every word of extracted text in it belongs to a document that
\* is still in the map.
C1_CombinedMatchesDocuments ==
    \A o \in DOMAIN sessions :
        LET s == sessions[o]
            c == s.combined_pdf_content
        IN /\ IsNone(c) <=> s.pdfs = <<>>
           /\ ~IsNone(c) =>
                LET t == Value(c)
                IN /\ WellFormed(t)
                   /\ Cardinality(Heads(t)) = Len(s.pdfs)
                   /\ \A p \in Heads(t) :
                        LET k == Cardinality({q \in Heads(t) : q <= p})
                            b == BlockAt(t, p)
                        IN /\ b.number = IntStr(k)
                           /\ b.closing_number = IntStr(k)
                           /\ b.name = s.pdfs[k].name
                           /\ b.closing_name = s.pdfs[k].name
                           /\ b.content = s.pdfs[k].content
                   /\ \A i \in DOMAIN t :
                        IsWord(t[i]) =>
                            \E k \in DOMAIN s.pdfs : \E j \in DOMAIN s.pdfs[k].content :
                                s.pdfs[k].content[j] = t[i]

\* A document was just removed, and the one that remains was the second of the
\* map: it is filed under a name that is not its file's and is now block 1.
C1_Witness ==
    /\ last.op = "remove_pdf" /\ last.success
    /\ LET s == sessions[last.obj]
       IN /\ Len(s.pdfs) = 1
          /\ s.pdfs[1].name = "a.pdf"
          /\ s.pdfs[1].path.base = "b.pdf"
          /\ Value(s.combined_pdf_content)[3] = "1"

----------------------------------------------------------------------------
(* C2 *)

\* C2: a load_pdf or remove_pdf that succeeded has set last_activity to the
\* time of the call, and a session holding a document uploaded less than the
\* timeout ago is not reported expired.
C2_DocumentMutationTouchesActivity ==
    /\ (last.op \in {"load_pdf", "remove_pdf"} /\ last.success)
          => sessions[last.obj].last_activity = now
    /\ \A o \in DOMAIN sessions : \A k \in DOMAIN sessions[o].pdfs :
          now - sessions[o].pdfs[k].uploaded_at < Minutes(DefaultTimeoutMinutes)
              => ~is_session_expired(sessions[o], DefaultTimeoutMinutes, now)

----------------------------------------------------------------------------
(* C3 *)

Has(t, a) == \E i \in DOMAIN t : t[i] = a

\* C3: the directive built from a session's combined text has the
\* single-document wording when the session holds exactly one document, the
\* multi-document wording exactly when it holds two or more, and is the base
\* instruction when there is no document text.
C3_PromptWordingFollowsDocumentCount ==
    \A o \in DOMAIN sessions :
        LET s == sessions[o]
            prompt == get_system_prompt(s.combined_pdf_content)
            multi == Has(prompt, "DOCUMENTOS PDF CARGADOS:")
                        /\ Has(prompt, "INSTRUCCIONES ESPECIALES: MULTIPLES")
        IN /\ Len(s.pdfs) = 1 => Has(prompt, "DOCUMENTO PDF CARGADO:") /\ ~multi
           /\ multi <=> Len(s.pdfs) >= 2
           /\ ~Truthy(s.combined_pdf_content) => prompt = base_prompt

----------------------------------------------------------------------------
(* C4 *)

\* The key load_pdf files an upload under
StoredName(u) ==
    IF u.ep = "add" THEN DisplayName(u) ELSE TempPath(u, sessions[u.obj]).base

\* C4: on either upload endpoint, an upload whose resolved name is that of a
\* document the session holds is answered with an error, and the session is
\* left as it was.
C4_DuplicateUploadRejected ==
    [][\A u \in uploads :
          (u \notin uploads' /\ HasKey(sessions[u.obj].pdfs, StoredName(u)))
              => (last'.http >= 400 /\ sessions'[u.obj] = sessions[u.obj])]_vars

----------------------------------------------------------------------------
(* C5 *)

\* C5: every session creation adds an entry to the registry and keeps those
\* that were there.
C5_CreationAddsAnEntry ==
    [][sessions_created' = sessions_created + 1
          => /\ DOMAIN active_sessions \subseteq DOMAIN active_sessions'
             /\ Cardinality(DOMAIN active_sessions') = Cardinality(DOMAIN active_sessions) + 1
             /\ \A id \in DOMAIN active_sessions : active_sessions'[id] = active_sessions[id]]_vars

----------------------------------------------------------------------------
(* C6 *)

NoPdfError == Some(<<"No PDFs loaded in this session">>)

----------------------------------------------------------------------------
(* C7 *)

\* C7: when the provider call fails inside the client, chat returns
\* success=false with a non-empty error.
C7_ProviderFailureIsReported ==
    (last.op = "chat" /\ last.client = "error")
        => /\ ~last.success
           /\ ~IsNone(last.error)
           /\ Value(last.error) # <<>>

----------------------------------------------------------------------------
(* C8 *)

\* C8: chat never raises to its caller; when a step after the document check
\* raises (the message is not a text, so that taking its length fails), the
\* result is success=false with a non-empty error and the apology followed by
\* that error as response.
C8_ChatNeverRaises ==
    last.op = "chat" =>
        /\ ~last.raised
        /\ (has_pdfs(sessions[last.obj]) /\ IsNone(last.arg)) =>
              /\ ~last.success
              /\ ~IsNone(last.error)
              /\ TextLen(Value(last.error)) > 0
              /\ last.response = Some(<<APOLOGY>> \o Value(last.error))

\* A chat raised inside, on a session with documents and earlier history.
C8_Witness ==
    /\ last.op = "chat" /\ IsNone(last.arg)
    /\ has_pdfs(sessions[last.obj])
    /\ sessions[last.obj].conversation_history # <<>>
    /\ last.error = Some(TypeErrorText)

----------------------------------------------------------------------------
(* C9 *)

\* C9: a chat whose provider call failed appends to the history the user turn
\* and then an assistant turn whose content is the apology followed by the
\* provider's error.
C9_FailedExchangeIsRecorded ==
    [][\A o \in DOMAIN sessions :
          (last'.op = "chat" /\ last'.obj = o /\ last'.client = "error") =>
              LET h == sessions[o].conversation_history
                  h2 == sessions'[o].conversation_history
                  n == Len(h)
              IN /\ Len(h2) = n + 2
                 /\ SubSeq(h2, 1, n) = h
                 /\ h2[n + 1].role = "user"
                 /\ h2[n + 1].content = Value(last'.arg)
                 /\ h2[n + 2].role = "assistant"
                 /\ Head(h2[n + 2].content) = APOLOGY
                 /\ \E p \in Providers : p.kind = "error" /\ Tail(h2[n + 2].content) = p.text]_vars

\* The provider failed on the second exchange of a session.
C9_Witness ==
    /\ last.op = "chat" /\ last.client = "error"
    /\ Len(sessions[last.obj].conversation_history) = 4
    /\ Head(sessions[last.obj].conversation_history[4].content) = APOLOGY

----------------------------------------------------------------------------
(* C10 *)

\* C10: in every state the history of a session has even length and its turns
\* alternate user, assistant, beginning with a user turn.
C10_HistoryAlternates ==
    \A o \in DOMAIN sessions :
        LET h == sessions[o].conversation_history
        IN /\ Len(h) % 2 = 0
           /\ \A i \in DOMAIN h : h[i].role = IF i % 2 = 1 THEN "user" ELSE "assistant"

\* Two exchanges are in the history: the first failed at the provider, the
\* second was answered.
C10_Witness ==
    /\ last.op = "chat" /\ last.client = "reply" /\ last.success
    /\ LET h == sessions[last.obj].conversation_history
       IN /\ Len(h) = 4
          /\ Head(h[2].content) = APOLOGY
          /\ h[4].content = <<"respuesta">>

----------------------------------------------------------------------------
(* C11 *)

\* C11: an expiry test with timeout t answers True when last_activity lies
\* t + 1 minutes before the current time and False when last_activity is the
\* current time, for every timeout including 0; whatever else differs between
\* two registered sessions, equal elapsed time gives the same answer.
C11_ExpiryFollowsElapsedTime ==
    last.op = "is_session_expired" =>
        LET s == sessions[last.obj]
            tm == Value(last.arg)
        IN /\ now - s.last_activity = Minutes(tm + 1) => last.success
           /\ now = s.last_activity => ~last.success
           /\ \A id \in DOMAIN active_sessions :
                 LET s2 == sessions[active_sessions[id]]
                 IN s2.last_activity = s.last_activity
                        => is_session_expired(s2, tm, now) = last.success

\* A session touched by a chat after its creation is tested with timeout 0 at
\* the very instant of the chat.
C11_Witness ==
    /\ last.op = "is_session_expired" /\ last.arg = Some(0) /\ ~last.success
    /\ sessions[last.obj].last_activity = now
    /\ sessions[last.obj].created_at < now

----------------------------------------------------------------------------
(* C12 *)

\* Nothing is at the path, or what is there yields no text
Unloadable(path) ==
    \/ IsNone(OnDisk(path))
    \/ /\ extract_text(Value(OnDisk(path))).method = "failed"
       /\ extract_text(Value(OnDisk(path))).text = <<>>

\* C12: a load_pdf on a path where no file is, or whose file yields empty text,
\* returns False, raises nothing and leaves every field of every session as
\* it was.
C12_FailedLoadChangesNothing ==
    [][last'.op = "load_pdf" =>
          \A path \in DiskPaths, n \in PdfNames :
              (Unloadable(path) /\ LoadPdf(last'.obj, path, n))
                  => /\ ~last'.success
                     /\ ~last'.raised
                     /\ sessions' = sessions]_vars

\* A load has just failed on a session that holds two documents and a history.
C12_Witness ==
    /\ last.op = "load_pdf" /\ ~last.success
    /\ Len(sessions[last.obj].pdfs) = 2
    /\ sessions[last.obj].conversation_history # <<>>
    /\ sessions[last.obj].total_tokens_used > 0

----------------------------------------------------------------------------
(* C13 *)

\* part occurs in text as a run of consecutive atoms
Contains(text, part) ==
    \E k \in 1..(Len(text) - Len(part) + 1) : SubSeq(text, k, k + Len(part) - 1) = part

\* C13: every chat on a session with documents reaches the client, whatever
\* the estimated token usage, and what the client hands the provider holds the
\* whole combined text of the documents, the user's message at the end, and
\* every turn of the history with its role and content, in order.
C13_ChatSendsEverything ==
    [][\A o \in DOMAIN sessions :
          (last'.op = "chat" /\ last'.obj = o /\ sessions[o].pdfs # <<>> /\ ~IsNone(last'.arg)) =>
              /\ last'.client # "not_called"
              /\ ~IsNone(last'.sent)
              /\ LET c == Value(sessions[o].combined_pdf_content)
                     h == sessions[o].conversation_history
                     m == Value(last'.sent)
                     msg == Value(last'.arg)
                 IN /\ Contains(m.message, c)
                    /\ TextLen(m.message) > TextLen(c) + TextLen(msg)
                    /\ SubSeq(m.message, Len(m.message) - Len(msg) + 1, Len(m.message)) = msg
                    /\ Len(m.history) = Len(h)
                    /\ \A i \in DOMAIN h :
                          m.history[i].role = h[i].role /\ m.history[i].parts = h[i].content
                    /\ last'.client = "reply" => last'.success]_vars

\* A chat was answered although its estimated usage was past the ceiling, on
\* a session with two documents and an earlier exchange.
C13_Witness ==
    /\ last.op = "chat" /\ last.success
    /\ Value(last.token_info).total_tokens > GeminiLimit
    /\ Len(sessions[last.obj].pdfs) = 2
    /\ Len(sessions[last.obj].conversation_history) = 4
    /\ Len(Value(last.sent).history) = 2

----------------------------------------------------------------------------
(* C14 *)

\* C14: a request at an endpoint that reads or changes a session's documents,
\* history or statistics is answered 404 when its id is not in the registry
\* and 410 when the id is registered and the session expired, and in both
\* cases sessions, registry and uploads in progress are left as they were.
C14_SessionEndpointsGuarded ==
    [][\A id \in GuardIds :
          LET missing == id \notin DOMAIN active_sessions
              expired == ~missing /\ is_session_expired(sessions[active_sessions[id]],
                                                        DefaultTimeoutMinutes, now)
          IN ((missing \/ expired) /\ GuardedRequest(id)) =>
                 /\ missing => last'.http = 404
                 /\ expired => last'.http = 410
                 /\ ~last'.success
                 /\ sessions' = sessions
                 /\ active_sessions' = active_sessions
                 /\ uploads' = uploads]_vars

\* A chat request was answered 410 on a registered session that holds a
\* document and a history.
C14_Witness ==
    /\ last.op = "send_message" /\ last.http = 410
    /\ \E id \in DOMAIN active_sessions : active_sessions[id] = last.obj
    /\ sessions[last.obj].pdfs # <<>>
    /\ sessions[last.obj].conversation_history # <<>>

----------------------------------------------------------------------------
(* C15 *)

\* C15: a sweep with timeout t takes out of the registry exactly the ids whose
\* session is expired for t at that time, leaves every other id bound to the
\* same session with every field as before, and returns how many it took out.
C15_SweepRemovesExactlyExpired ==
    [][last'.op = "cleanup_expired_sessions" =>
          LET tm == Value(last'.arg)
              gone == {id \in DOMAIN active_sessions :
                          is_session_expired(sessions[active_sessions[id]], tm, now)}
          IN /\ DOMAIN active_sessions' = (DOMAIN active_sessions) \ gone
             /\ \A id \in DOMAIN active_sessions' :
                   /\ active_sessions'[id] = active_sessions[id]
                   /\ sessions'[active_sessions[id]] = sessions[active_sessions[id]]
             /\ last'.info = Some(Cardinality(gone))]_vars

\* A sweep with timeout 0 took out one session and kept the other, which holds
\* a document and a history.
C15_Witness ==
    /\ last.op = "cleanup_expired_sessions" /\ last.arg = Some(0) /\ last.info = Some(1)
    /\ DOMAIN active_sessions = {"test_session_1"}
    /\ sessions[active_sessions["test_session_1"]].conversation_history # <<>>
    /\ Len(sessions) = 2

----------------------------------------------------------------------------
(* C16 *)

\* C16: clear_conversation leaves the session with an empty history, an empty
\* usage log and a counter of 0, and every other field as it was; the summary
\* taken right after reports 0 messages and 0 tokens used, and the document
\* count, the document list and the combined content length it reported before.
C16_ClearKeepsDocuments ==
    [][last'.op = "clear_conversation" =>
          LET before == sessions[last'.obj]
              after == sessions'[last'.obj]
              sb == get_session_summary(before, now)
              sa == get_session_summary(after, now')
          IN /\ after = [before EXCEPT !.conversation_history = <<>>,
                                       !.token_usage_history = <<>>,
                                       !.total_tokens_used = 0]
             /\ sa.conversation_info.message_count = 0
             /\ sa.conversation_info.total_tokens_used = 0
             /\ sa.token_usage_history = <<>>
             /\ sa.pdf_info.pdfs_loaded = Len(before.pdfs)
             /\ sa.pdf_info = sb.pdf_info
             /\ sa.pdf_info.total_content_length =
                    IF before.pdfs = <<>> THEN 0
                    ELSE TextLen(Value(before.combined_pdf_content))]_vars

\* A conversation was cleared on a session that holds two documents and has
\* chatted.
C16_Witness ==
    /\ last.op = "clear_conversation"
    /\ Len(sessions[last.obj].pdfs) = 2
    /\ sessions[last.obj].last_activity > sessions[last.obj].created_at
    /\ sessions[last.obj].total_tokens_used = 0

----------------------------------------------------------------------------
(* C17 *)

\* C17: across every step, the history of every session either keeps all its
\* turns in place, unchanged, with any new turns after them, or is empty after
\* a clear_conversation or an unload_pdf.
C17_HistoryAppendOnly ==
    [][\A o \in DOMAIN sessions :
          LET h == sessions[o].conversation_history
              h2 == sessions'[o].conversation_history
          IN \/ /\ Len(h2) >= Len(h)
                /\ SubSeq(h2, 1, Len(h)) = h
             \/ /\ h2 = <<>>
                /\ last'.op \in {"clear_conversation", "unload_pdf"}
                /\ last'.obj = o]_vars

\* A second exchange, later than the first and failed at the provider, was
\* appended after the first one.
C17_Witness ==
    /\ last.op = "chat" /\ last.client = "error"
    /\ LET h == sessions[last.obj].conversation_history
       IN /\ Len(h) = 4
          /\ h[1].timestamp < h[3].timestamp
          /\ h[2].content = <<"respuesta">>

----------------------------------------------------------------------------
(* C18 *)

\* C18: in every state neither the usage log a session retains nor the usage
\* log its summary reports holds more than the 10 most recent records.
C18_UsageLogBounded ==
    \A o \in DOMAIN sessions :
        /\ Len(sessions[o].token_usage_history) <= SummaryLogLen
        /\ Len(get_session_summary(sessions[o], now).token_usage_history) <= SummaryLogLen

----------------------------------------------------------------------------
(* C19 *)

Names(s) == [i \in DOMAIN s.pdfs |-> s.pdfs[i].name]

\* The blocks of the combined text are numbered 1..n in the order they appear,
\* the k-th carrying the name of the k-th document of the map.
NumberedInOrder(s) ==
    \/ s.pdfs = <<>> /\ IsNone(s.combined_pdf_content)
    \/ /\ s.pdfs # <<>> /\ ~IsNone(s.combined_pdf_content)
       /\ LET t == Value(s.combined_pdf_content)
          IN /\ Cardinality(Heads(t)) = Len(s.pdfs)
             /\ \A p \in Heads(t) :
                   LET k == Cardinality({q \in Heads(t) : q <= p})
                   IN t[p + 1] = IntStr(k) /\ t[p + 3] = s.pdfs[k].name

\* A successful removal leaves the other names in their order, and a combined
\* text that is strictly shorter and still non-empty while a document remains.
RemovalShrinks(s, s2) ==
    /\ \E k \in DOMAIN s.pdfs :
          Names(s2) = [i \in 1..(Len(s.pdfs) - 1) |->
                          IF i < k THEN s.pdfs[i].name ELSE s.pdfs[i + 1].name]
    /\ IF s2.pdfs = <<>>
       THEN IsNone(s2.combined_pdf_content)
       ELSE /\ Truthy(s2.combined_pdf_content)
            /\ TextLen(Value(s2.combined_pdf_content)) < TextLen(Value(s.combined_pdf_content))

Changed(s, s2) == s2.pdfs # s.pdfs \/ s2.combined_pdf_content # s.combined_pdf_content

\* C19 as stated: the blocks are numbered 1..n in map order, a document loaded
\* earlier always has a smaller number than one loaded later, and a removal
\* renumbers the rest from 1 and shortens the combined text, which stays
\* non-empty while a document remains.
C19_NumberedByLoadTime ==
    [][\A o \in DOMAIN sessions :
          LET s == sessions[o]
              s2 == sessions'[o]
          IN /\ Changed(s, s2) =>
                   /\ NumberedInOrder(s2)
                   /\ \A i, j \in DOMAIN s2.pdfs :
                         s2.pdfs[i].uploaded_at < s2.pdfs[j].uploaded_at => i < j
             /\ (last'.op = "remove_pdf" /\ last'.obj = o /\ last'.success)
                   => RemovalShrinks(s, s2)]_vars

\* C19 (amended): the blocks are numbered 1..n in map order, where a load
\* under a new name puts the document last and a load under a name already
\* present replaces it in its place; a removal renumbers the rest from 1 and
\* shortens the combined text, which stays non-empty while a document remains.
C19_NumberedByFirstInsertion ==
    [][\A o \in DOMAIN sessions :
          LET s == sessions[o]
              s2 == sessions'[o]
          IN /\ Changed(s, s2) => NumberedInOrder(s2)
             /\ (last'.op = "load_pdf" /\ last'.obj = o /\ last'.success) =>
                   \/ Names(s2) = Names(s) /\ s.pdfs # <<>>
                   \/ \E k \in DOMAIN s2.pdfs :
                         /\ k = Len(s2.pdfs)
                         /\ ~HasKey(s.pdfs, s2.pdfs[k].name)
                         /\ Names(s2) = Append(Names(s), s2.pdfs[k].name)
             /\ (last'.op = "remove_pdf" /\ last'.obj = o /\ last'.success)
                   => RemovalShrinks(s, s2)]_vars

\* The first of two documents was loaded again after the second: it is still
\* number 1 and carries the later upload time.
C19_Witness ==
    /\ last.op = "load_pdf" /\ last.success
    /\ LET s == sessions[last.obj]
       IN /\ Len(s.pdfs) = 2
          /\ s.pdfs[1].uploaded_at > s.pdfs[2].uploaded_at
          /\ Value(s.combined_pdf_content)[3] = "1"
          /\ Value(s.combined_pdf_content)[5] = s.pdfs[1].name

----------------------------------------------------------------------------
(* C20 *)

\* The estimates of the message, the combined document text, the base prompt
\* and the history before the call, added up
PreCallTotal(s, message) ==
    estimate_tokens(message)
    + (IF s.pdfs = <<>> THEN 0 ELSE estimate_tokens(Value(s.combined_pdf_content)))
    + estimate_tokens(base_prompt)
    + (IF s.conversation_history = <<>> THEN 0 ELSE ReprLen(s.conversation_history) \div 4)

\* C20: a chat the provider answered adds to total_tokens_used exactly the
\* pre-call total plus the estimate of the response, and returns the new
\* counter as session_total_tokens; a chat that was short-circuited, that
\* raised inside, or whose provider call failed leaves the counter as it was.
C20_CounterAddsExchangeTotal ==
    [][\A o \in DOMAIN sessions :
          (last'.op = "chat" /\ last'.obj = o) =>
              LET s == sessions[o]
                  s2 == sessions'[o]
              IN IF last'.success /\ last'.client = "reply"
                 THEN /\ s2.total_tokens_used =
                            s.total_tokens_used + PreCallTotal(s, Value(last'.arg))
                                + estimate_tokens(Value(last'.response))
                      /\ Value(last'.token_info).session_total_tokens = s2.total_tokens_used
                 ELSE s2.total_tokens_used = s.total_tokens_used]_vars

----------------------------------------------------------------------------
(* C21 *)

\* C21: with a clock that does not run backwards, across every step and for
\* every session object, last_activity after the step is greater than or
\* equal to last_activity before it, and created_at is what it was.
C21_ActivityNeverDecreases ==
    [][\A o \in DOMAIN sessions :
          /\ sessions'[o].last_activity >= sessions[o].last_activity
          /\ sessions'[o].created_at = sessions[o].created_at]_vars

\* A chat entered after time had passed moved last_activity forward, past a
\* created_at that stayed at the time of construction, and a clear that
\* followed left both alone.
C21_Witness ==
    /\ last.op = "clear_conversation"
    /\ LET s == sessions[last.obj]
       IN /\ s.created_at = 0
          /\ s.last_activity > s.created_at
          /\ s.last_activity < now

----------------------------------------------------------------------------
(* C22 *)

\* C22: whenever estimate_tokens has been applied to a text, what it returned
\* is the one integer n with 4n <= len(text) < 4n + 4, the floor of a quarter
\* of the length, and it is 0 for the empty string.
C22_EstimateIsFloorOfQuarter ==
    last.op = "estimate_tokens" =>
        LET text == Value(last.arg)
            n == Value(last.info)
        IN /\ 4 * n <= TextLen(text)
           /\ TextLen(text) < 4 * n + 4
           /\ (TextLen(text) = 0 => n = 0)

\* A text of seven characters was estimated at one token.
C22_Witness ==
    /\ last.op = "estimate_tokens"
    /\ Value(last.arg) = <<"abc", "hola">>
    /\ Value(last.info) = 1

----------------------------------------------------------------------------
(* C23 *)

Registered(o) == \E id \in DOMAIN active_sessions : active_sessions[id] = o

\* C23: no deletion and no expiry sweep takes out of the registry the session
\* of an upload request that has passed get_valid_session and has not yet
\* answered.
C23_NoRemovalDuringRequest ==
    [][last'.op \in {"delete_session", "cleanup_expired_sessions"} =>
          \A u \in uploads : Registered(u.obj) => Registered(u.obj)']_vars

----------------------------------------------------------------------------
(* C24 *)

RECURSIVE SumExchanges(_)
SumExchanges(log) ==
    IF log = <<>> THEN 0 ELSE Head(log).total_exchange_tokens + SumExchanges(Tail(log))

\* The turns alternate user, assistant and the counter is the sum of the
\* totals of the exchanges logged.
FlightsSettled(s) ==
    /\ Len(s.conversation_history) = 2 * Len(s.token_usage_history)
    /\ \A i \in DOMAIN s.conversation_history :
           s.conversation_history[i].role = (IF i % 2 = 1 THEN "user" ELSE "assistant")
    /\ s.total_tokens_used = SumExchanges(s.token_usage_history)

\* The call answered in this step put its user turn and, right after it, the
\* reply it returns at the end of the history as it was, and added its
\* exchange total, the pre-call total it was entered with plus the estimate
\* of its reply, to the counter as it was.
FlightAnswered(c) ==
    LET s == sessions[c.obj]
        s2 == sessions'[c.obj]
        h == s.conversation_history
        h2 == s2.conversation_history
        ti == Value(last'.token_info)
    IN /\ Len(h2) = Len(h) + 2
       /\ SubSeq(h2, 1, Len(h)) = h
       /\ h2[Len(h) + 1].role = "user" /\ h2[Len(h) + 1].content = c.message
       /\ h2[Len(h) + 2].role = "assistant" /\ h2[Len(h) + 2].content = Value(last'.response)
       /\ ti.total_exchange_tokens =
              c.token_info.total_tokens + estimate_tokens(Value(last'.response))
       /\ s2.total_tokens_used = s.total_tokens_used + ti.total_exchange_tokens

\* C24: when chat calls on one session overlap, each waiting for the provider,
\* whichever is answered appends its user turn immediately followed by its
\* reply and adds its exchange total to the counter, so that in every state
\* the turns alternate user, assistant and total_tokens_used is the sum of
\* the exchanges' totals.
C24_OverlappingChatsKeepOrder ==
    /\ [](\A o \in DOMAIN sessions : FlightsSettled(sessions[o]))
    /\ [][\A c \in chats : c \notin chats' => FlightAnswered(c)]_vars

\* Two calls were in flight at once: the one answered last was entered when
\* the history was empty, and by the time it was answered the other call's
\* two turns were there; the four turns are the two exchanges.
C24_Witness ==
    /\ last.op = "chat" /\ last.success /\ chats = {}
    /\ Value(last.token_info).history_tokens = 0
    /\ LET h == sessions[last.obj].conversation_history
       IN /\ Len(h) = 4
          /\ h[1].content = <<"resumen">> /\ h[3].content = <<"hola">>
          /\ h[2].content # h[4].content

----------------------------------------------------------------------------
(* C25 *)

\* C25: after cleanup_expired_sessions(0), the sweep the application runs at
\* shutdown, the registry is empty.
C25_ShutdownSweepEmptiesRegistry ==
    (last.op = "cleanup_expired_sessions" /\ last.arg = Some(0)) =>
        DOMAIN active_sessions = {}

----------------------------------------------------------------------------
(* C26 *)

\* C26: a chat that ended in its except clause, the client having raised,
\* leaves the session as it was but for last_activity, which is the time the
\* chat was entered: history, usage log, counter, documents and legacy fields
\* are unchanged.
C26_RaiseLeavesSessionAlone ==
    [][(last'.op = "chat" /\ ~last'.success /\ ~IsNone(last'.response)) =>
          sessions' = [sessions EXCEPT ![last'.obj] =
                          [sessions[last'.obj] EXCEPT !.last_activity = now]]]_vars

\* After an exchange, and later than it, the client raised on a message that
\* is None: the exchange is still all the history holds and all that was
\* counted, and last_activity is the time of the failed call.
C26_Witness ==
    /\ last.op = "chat" /\ ~last.success /\ last.error = Some(TypeErrorText)
    /\ LET s == sessions[last.obj]
       IN /\ Len(s.conversation_history) = 2
          /\ Len(s.token_usage_history) = 1
          /\ s.total_tokens_used = s.token_usage_history[1].cumulative_tokens
          /\ s.last_activity = now
          /\ s.last_activity > s.conversation_history[2].timestamp

----------------------------------------------------------------------------
(* C27 *)

\* C27: in every state the legacy field pdf_content of every session is its
\* combined_pdf_content, and both are None exactly when the session holds no
\* document.
C27_LegacyContentIsCombined ==
    \A o \in DOMAIN sessions :
        LET s == sessions[o]
        IN /\ s.pdf_content = s.combined_pdf_content
           /\ IsNone(s.combined_pdf_content) <=> s.pdfs = <<>>

\* A second document was loaded after the first: pdf_content is no longer the
\* first document's text but the combined text of both.
C27_Witness ==
    /\ last.op = "load_pdf" /\ last.success
    /\ LET s == sessions[last.obj]
       IN /\ Len(s.pdfs) = 2
          /\ s.pdf_content = s.combined_pdf_content
          /\ Count(Value(s.pdf_content), MARK) = 4
          /\ Value(s.pdf_content) # s.pdfs[1].content

----------------------------------------------------------------------------
(* C28 *)

\* C28: in every state, a session that holds documents has as pdf_filename
\* and pdf_info the name and the info of the first document of its map, and
\* a session that holds none has None and the empty mapping.
C28_LegacyFieldsDescribeFirstDocument ==
    \A o \in DOMAIN sessions :
        LET s == sessions[o]
        IN IF s.pdfs # <<>>
           THEN /\ s.pdf_filename = Some(s.pdfs[1].name)
                /\ s.pdf_info = Some(s.pdfs[1].info)
           ELSE IsNone(s.pdf_filename) /\ IsNone(s.pdf_info)

----------------------------------------------------------------------------
(* C29 *)

\* C29: in every state of a session whose calls do not overlap, the history
\* has two turns for every usage record, the cumulative_tokens of every
\* record is the sum of total_exchange_tokens of the records up to and
\* including it, and total_tokens_used is the cumulative_tokens of the last
\* record, 0 when there is none.
C29_LogAccountsForHistory ==
    \A o \in DOMAIN sessions :
        LET s == sessions[o]
            log == s.token_usage_history
        IN /\ Len(s.conversation_history) = 2 * Len(log)
           /\ \A i \in DOMAIN log :
                  log[i].cumulative_tokens = SumExchanges(SubSeq(log, 1, i))
           /\ s.total_tokens_used =
                  (IF log = <<>> THEN 0 ELSE log[Len(log)].cumulative_tokens)

\* Two exchanges were logged, the second failed at the provider: the second record's cumulative_tokens is the first's plus its
\* own total, and the counter stands at it.
C29_Witness ==
    /\ last.op = "chat" /\ last.client = "error"
    /\ LET s == sessions[last.obj]
           log == s.token_usage_history
       IN /\ Len(log) = 2 /\ Len(s.conversation_history) = 4
          /\ log[1].cumulative_tokens = log[1].total_exchange_tokens
          /\ log[2].cumulative_tokens = log[1].cumulative_tokens + log[2].total_exchange_tokens
          /\ log[2].total_exchange_tokens > log[1].total_exchange_tokens
          /\ s.total_tokens_used = log[2].cumulative_tokens

----------------------------------------------------------------------------
(* C30 *)

\* C30: the success response of POST .../pdf carries the num_pages, the
\* content_length, the estimated_tokens and the extraction_method of the
\* document record that upload stored.
C30_UploadResponseDescribesUpload ==
    [][\A u \in uploads :
          (u \notin uploads' /\ u.ep = "pdf" /\ last'.http = 200) =>
              LET pdfs == sessions'[u.obj].pdfs
                  rec == pdfs[KeyIndex(pdfs, StoredName(u))]
              IN last'.info = Some(UploadInfo(rec.info.num_pages, TextLen(rec.content),
                                              estimate_tokens(rec.content), rec.method))]_vars

====
